---- MODULE Spec2Model ----
(***************************************************************************)
(* Model of the CPU limiter of src/limiter.rs: the shared LimiterState     *)
(* behind the mutex, the control surface (set_target, set_global,          *)
(* set_limit, toggle), the background thread of start_background_task and  *)
(* the operating system's view of the processes it signals.                *)
(*                                                                         *)
(* Option<i32> is modelled as a set with at most one element: None is {}   *)
(* and Some(p) is {p}.  CPU loads and usages (f32 percentages) are kept in *)
(* tenths of a percent, so 0.5 is 5 and a limit of 80 is 800.              *)
(***************************************************************************)
EXTENDS Integers, Sequences, FiniteSets, TLC

\* ------------------------------------------------------------------ bounds

\* Number of other processes on the machine; the highest one is protected.
NumPids == 3

\* ------------------------------------------------------- program constants

PERIOD_MS == 100

GLOBAL_HYSTERESIS == 5

\* std::process::id() of the application itself.
Myself == 0

\* usage <= 0.5 is dropped from the candidates (tenths of a percent).
NoiseFloor == 5

\* ------------------------------------------------------------- environment

Pids == 1..NumPids

\* A process kill() refuses with EPERM for as long as it lives.
Protected == {NumPids}

None == {}

Some(p) == {p}

\* Arguments the callers pass to set_limit and set_global (u32).
SetLimitInputs == {25, 150}

SetGlobalInputs == {25, 150}

\* Arguments the callers pass to set_target: the processes they may signal.
TargetInputs == Pids \ Protected

\* Per-process cpu_usage() readings, in tenths of a percent.
UsageVals == {5, 6, 20}

\* global_cpu_usage() readings around the two thresholds of a limit.
LoadSamples(limit) ==
    {x \in {0, 10 * (limit - GLOBAL_HYSTERESIS) - 1,
            10 * (limit - GLOBAL_HYSTERESIS), 10 * limit, 10 * limit + 1} :
        x >= 0 /\ x <= 1000}

VARIABLES
    state,              \* the LimiterState behind Limiter.state
    stop_signal,        \* Limiter.stop_signal
    pc,                 \* where the background thread is
    snap,               \* (target, limit, mode, active) read this iteration;
                        \* the bindings end with the iteration (NoSnap)
    targeted_pid,       \* thread-local
    paused_global,      \* thread-local VecDeque
    paused_global_set,  \* thread-local HashSet
    alive,              \* processes that exist
    held,               \* stopped processes, oldest stop first: <<pid, by>>
    trace,              \* what the thread did since its last read of state
    arm,                \* the arm of the loop body that produced trace
    dropped,            \* exited pids the thread gave up in Targeted mode after
                        \* a failed signal, since the target last changed
    lock,               \* the state mutex: "free", or where its holder is
    log,                \* the traces of the finished iterations, kept only
                        \* when the loads follow LoadSchedule
    threads,            \* the threads start_background_task has spawned
    status,             \* the LimiterStatus the thread publishes
    ui                  \* CpuLimiterApp: selected_pid, limit_value, is_active,
                        \* global_mode

vars == <<state, stop_signal, pc, snap, targeted_pid, paused_global,
          paused_global_set, alive, held, trace, arm, dropped, lock, log,
          threads, status, ui>>

engineVars == <<pc, snap, targeted_pid, paused_global, paused_global_set, trace, arm>>

\* ------------------------------------------------------------ pure helpers

Min(a, b) == IF a < b THEN a ELSE b

Max(a, b) == IF a > b THEN a ELSE b

\* clamp with the lower bound forgotten: min(100)
ClampNoFloor(limit) == Min(limit, 100)

\* u32::clamp(1, 100)
Clamp(limit) == Max(1, Min(limit, 100))

\* (PERIOD_MS * limit as u64) / 100
run_ms(limit) == (PERIOD_MS * limit) \div 100

\* the stop phase sleeping a whole period
stop_ms_period(limit) == PERIOD_MS

\* PERIOD_MS - run_ms in u64.  A negative result -k stands for the wrapped
\* value 2^64 - k of a build without overflow checks.
stop_ms(limit) == PERIOD_MS - run_ms(limit)

\* the threshold kept at 0.1 or more: max(0.1) for max(0.0)
lower_threshold_positive(limit) == Max(10 * (limit - GLOBAL_HYSTERESIS), 1)

\* (limit_f32 - GLOBAL_HYSTERESIS).max(0.0), in tenths
lower_threshold(limit) == Max(10 * (limit - GLOBAL_HYSTERESIS), 0)

Range(s) == {s[i] : i \in 1..Len(s)}

\* kill(pid, sig).is_ok(): the process exists and may be signalled.  The
\* application's own process always does.
KillOk(al, pid) == pid = Myself \/ (pid \in al /\ pid \notin Protected)

HeldPids(h) == {h[i][1] : i \in 1..Len(h)}

\* The OS after SIGCONT to pid: a stopped process runs again.
AfterCont(al, h, pid) ==
    IF KillOk(al, pid)
    THEN LET Keep(e) == e[1] # pid IN SelectSeq(h, Keep)
    ELSE h

\* The OS after SIGSTOP to pid sent on behalf of mode `by`.
AfterStop(al, h, pid, by) ==
    IF KillOk(al, pid) /\ pid \notin HeldPids(h)
    THEN Append(h, <<pid, by>>)
    ELSE h

\* One thing the thread did: what, to which pid, the result, the amount
\* (ms slept, load sampled) and the line of limiter.rs that did it.
Ev(k, pid, ok, ms, at) == [k |-> k, pid |-> pid, ok |-> ok, ms |-> ms, at |-> at]

\* kill(pid, SIGCONT) and its result
ContEv(al, pid, at) == Ev("cont", pid, KillOk(al, pid), 0, at)

\* kill(pid, SIGSTOP) and its result
StopEv(al, pid, at) == Ev("stop", pid, KillOk(al, pid), 0, at)

\* thread::sleep(ms)
SleepEv(ms, at) == Ev("sleep", -1, TRUE, ms, at)

\* sys.global_cpu_usage()
SampleEv(load) == Ev("sample", -1, TRUE, load, 170)

\* The cpu_usage() readings of sys.processes()
UsageEv(usage) == Ev("usage", -1, TRUE, usage, 186)

\* The OS after the thread's events evs, its stops being on behalf of `by`.
RECURSIVE Apply(_, _, _, _)
Apply(al, h, evs, by) ==
    IF evs = <<>> THEN h
    ELSE LET e == Head(evs)
             h1 == IF e.k = "cont" THEN AfterCont(al, h, e.pid)
                   ELSE IF e.k = "stop" THEN AfterStop(al, h, e.pid, by)
                   ELSE h
         IN Apply(al, h1, Tail(evs), by)

\* `if let` for `while let`: only the head of the queue is resumed
ContHeadEv(al, q, at) == IF q = <<>> THEN <<>> ELSE <<ContEv(al, q[1], at)>>

\* Events of `while let Some(pid) = paused_global.pop_front() { kill(SIGCONT) }`
ContAllEv(al, q, at) == [i \in 1..Len(q) |-> ContEv(al, q[i], at)]

\* take() without the kill
TakeNoEv(al, t, at) == <<>>

\* Events of `if let Some(pid) = targeted_pid.take() { kill(SIGCONT) }`
TakeEv(al, t, at) ==
    IF t = None THEN <<>> ELSE <<ContEv(al, CHOOSE p \in t : TRUE, at)>>

\* the drain loop without `paused_global_set.remove(&pid)`
DrainedKept(pset, q) == pset

\* The set after each popped pid was removed from it.
Drained(pset, q) == pset \ Range(q)

\* The one element of Some(p).
Unwrap(t) == CHOOSE p \in t : TRUE

\* --------------------------------------------------------- control surface

\* a Limiter created switched on
NewStateActive ==
    [target_pid |-> None, limit_percentage |-> 100, mode |-> "Targeted",
     is_active |-> TRUE]

\* the status that takes the held target for never stopped
StatusQueueOnly(t, q, tr) ==
    [is_actively_limiting |-> q # <<>>, currently_paused_pids |-> Range(q)]

\* The LimiterStatus of a thread that holds target t and queue q and has just
\* done tr: the target counts as paused when the last signal sent to it was a
\* stop that succeeded.
StatusOf(t, q, tr) ==
    LET sig == {i \in 1..Len(tr) : tr[i].k \in {"cont", "stop"} /\ tr[i].pid \in t}
        stopped == {p \in t : /\ sig # {}
                               /\ LET e == tr[CHOOSE i \in sig : \A j \in sig : j <= i]
                                  IN e.k = "stop" /\ e.ok}
        paused == stopped \cup Range(q)
    IN [is_actively_limiting |-> paused # {}, currently_paused_pids |-> paused]

\* CpuLimiterApp::new
NewApp ==
    [selected_pid |-> None, limit_value |-> 50, is_active |-> FALSE,
     global_mode |-> FALSE]

\* The LimiterStatus at startup
NewStatus == [is_actively_limiting |-> FALSE, currently_paused_pids |-> {}]

\* Limiter::new
NewState ==
    [target_pid |-> None, limit_percentage |-> 100, mode |-> "Targeted",
     is_active |-> FALSE]

\* No bindings: the thread is between two iterations.
NoSnap == NewState

\* let (target, limit, mode, active) = { let s = lock(); (...) }.  A binding
\* that no statement of the arm taken reads (target in the Global arm, limit
\* without a target, all but active when inactive) is kept as in NoSnap.
ReadState(s) ==
    IF ~s.is_active THEN [NoSnap EXCEPT !.is_active = FALSE]
    ELSE IF s.mode = "Global" THEN [s EXCEPT !.target_pid = NoSnap.target_pid]
    ELSE IF s.target_pid = None
         THEN [s EXCEPT !.limit_percentage = NoSnap.limit_percentage]
    ELSE s

\* set_target without `state.mode = LimiterMode::Targeted`
set_target_keeps_mode(s, pid) == [s EXCEPT !.target_pid = Some(pid)]

set_target_state(s, pid) ==
    [s EXCEPT !.target_pid = Some(pid), !.mode = "Targeted"]

\* set_global with the clamp of set_limit
set_global_clamped(s, limit) ==
    [s EXCEPT !.mode = "Global", !.limit_percentage = Clamp(limit)]

\* set_global that also switches the limiter off
set_global_off(s, limit) ==
    [s EXCEPT !.mode = "Global", !.limit_percentage = limit, !.is_active = FALSE]

set_global_state(s, limit) ==
    [s EXCEPT !.mode = "Global", !.limit_percentage = limit]

set_limit_state(s, limit) ==
    [s EXCEPT !.limit_percentage = Clamp(limit)]

toggle_state(s, active) == [s EXCEPT !.is_active = active]

\* the kill made whatever `active` is
toggle_signals_any(s, active) == s.target_pid

\* Pids toggle(active) sends SIGCONT to.
toggle_signals(s, active) == IF active THEN None ELSE s.target_pid

set_target(pid) ==
    /\ lock = "free"
    /\ state' = set_target_state(state, pid)
    /\ dropped' = IF state'.target_pid = state.target_pid THEN dropped ELSE {}
    /\ UNCHANGED <<stop_signal, engineVars, alive, held, lock, log, threads, status, ui>>

set_global(limit) ==
    /\ lock = "free"
    /\ state' = set_global_state(state, limit)
    /\ UNCHANGED <<stop_signal, engineVars, alive, held, dropped, lock, log, threads, status, ui>>

set_limit(limit) ==
    /\ lock = "free"
    /\ state' = set_limit_state(state, limit)
    /\ UNCHANGED <<stop_signal, engineVars, alive, held, dropped, lock, log, threads, status, ui>>

\* The whole call: lock, write, kill, unlock.  The thread cannot read the
\* state between the write and the kill, so the call acts as one step.
toggle(active) ==
    /\ lock = "free"
    /\ state' = toggle_state(state, active)
    /\ held' = Apply(alive, held, TakeEv(alive, toggle_signals(state, active), 70), "none")
    /\ UNCHANGED <<stop_signal, engineVars, alive, dropped, lock, log, threads, status, ui>>

\* toggle in its steps.  `let mut state = self.state.lock()` lives to the
\* end of the function: the lock is taken, is_active written, and with
\* !active and a target the kill comes next, the lock still held.
toggle_lock(active) ==
    /\ lock = "free"
    /\ state' = toggle_state(state, active)
    /\ lock' = IF toggle_signals(state, active) # None THEN "toggle_kill"
                ELSE "toggle_end"
    /\ UNCHANGED <<stop_signal, engineVars, alive, held, dropped, log, threads, status, ui>>

\* kill(Pid::from_raw(pid), Signal::SIGCONT) of line 70
toggle_kill ==
    /\ lock = "toggle_kill"
    /\ held' = Apply(alive, held, TakeEv(alive, state.target_pid, 70), "none")
    /\ lock' = "toggle_end"
    /\ UNCHANGED <<state, stop_signal, engineVars, alive, dropped, log, threads, status, ui>>

\* The end of toggle drops the guard.
toggle_unlock ==
    /\ lock = "toggle_end"
    /\ lock' = "free"
    /\ UNCHANGED <<state, stop_signal, engineVars, alive, held, dropped, log, threads, status, ui>>

\* The thread that holds the state mutex.  The background thread holds it
\* for the read of lines 106-109 alone, which is one step (EngineRead).
LockHolder(l) == IF l = "free" THEN "none" ELSE "caller"

\* get_state: a clone of the state taken under the lock.
get_state == state

\* stop(), the request to end the thread: it sets the shared flag.
stop ==
    /\ stop_signal' = TRUE
    /\ UNCHANGED <<state, engineVars, alive, held, dropped, lock, log, threads, status, ui>>

\* ------------------------------------------------------ operating system

\* A process other than this one exits; a stopped one can be killed too.
ProcExit(p) ==
    /\ p \in alive
    /\ p \notin Protected
    /\ alive' = alive \ {p}
    /\ held' = LET Keep(e) == e[1] # p IN SelectSeq(held, Keep)
    /\ UNCHANGED <<state, stop_signal, engineVars, dropped, lock, log, threads, status, ui>>

\* ------------------------------------------------------ background thread

\* the shutdown without the release of the held target
ShutdownQueueEv(al, t, q) == ContAllEv(al, q, 100)

\* Events of `if stop_handle.load() { ...; break }`: the held target and
\* the whole queue are resumed.
ShutdownEv(al, t, q) == TakeEv(al, t, 97) \o ContAllEv(al, q, 100)

\* Top of the loop: the stop_signal check, then the read of the state.
EngineRead ==
    /\ pc = "loop"
    /\ stop_signal \/ lock = "free"
    /\ IF stop_signal
       THEN /\ trace' = ShutdownEv(alive, targeted_pid, paused_global)
            /\ held' = Apply(alive, held, trace', "none")
            /\ targeted_pid' = None
            /\ paused_global' = <<>>
            /\ paused_global_set' = Drained(paused_global_set, paused_global)
            /\ pc' = "exited"
            /\ arm' = "shutdown"
            /\ UNCHANGED snap
       ELSE /\ snap' = ReadState(state)
            /\ trace' = <<>>
            /\ pc' = "act"
            /\ arm' = "none"
            /\ UNCHANGED <<targeted_pid, paused_global, paused_global_set, held>>
    /\ UNCHANGED <<state, stop_signal, alive, dropped, lock, log, threads, status, ui>>

\* if !active { release everything; sleep(PERIOD_MS); continue }
EngineDisabled ==
    /\ pc = "act"
    /\ ~snap.is_active
    /\ trace' = TakeEv(alive, targeted_pid, 113) \o ContAllEv(alive, paused_global, 116)
                  \o <<SleepEv(PERIOD_MS, 119)>>
    /\ held' = Apply(alive, held, trace', "none")
    /\ targeted_pid' = None
    /\ paused_global' = <<>>
    /\ paused_global_set' = Drained(paused_global_set, paused_global)
    /\ pc' = "loop"
    /\ arm' = "disabled"
    /\ snap' = NoSnap
    /\ UNCHANGED <<state, stop_signal, alive, dropped, lock, log, threads, status, ui>>

\* Whether `targeted_pid != target` makes the thread drop its held target.
SwitchesTarget(held_target, target) == held_target # target

\* the switch without the resume of the old target
SwitchNoEv(al, held_target, target) == <<>>

\* Events of `if targeted_pid != target { take(); kill(SIGCONT) }`
SwitchEv(al, held_target, target) ==
    IF SwitchesTarget(held_target, target) THEN TakeEv(al, held_target, 134) ELSE <<>>

\* targeted_pid after `if targeted_pid != target { ...; targeted_pid = target }`
Adopted(held_target, target) ==
    IF SwitchesTarget(held_target, target) THEN target ELSE held_target

\* the run phase going on to the next iteration at once when the SIGCONT fails
RunPhaseSkipEv(al, pid, limit) ==
    IF ~KillOk(al, pid) THEN <<ContEv(al, pid, 143)>>
    ELSE <<ContEv(al, pid, 143)>>
           \o (IF run_ms(limit) > 0 THEN <<SleepEv(run_ms(limit), 149)>> ELSE <<>>)

\* Events of the run phase for pid: the SIGCONT, then on failure the sleep of
\* a period, on success the sleep of run_ms when it is positive.
RunPhaseEv(al, pid, limit) ==
    IF ~KillOk(al, pid) THEN <<ContEv(al, pid, 143), SleepEv(PERIOD_MS, 145)>>
    ELSE <<ContEv(al, pid, 143)>>
           \o (IF run_ms(limit) > 0 THEN <<SleepEv(run_ms(limit), 149)>> ELSE <<>>)

\* the stop phase with the limit read again from the shared state
StopPhaseRereadEv(al, pid, limit) ==
    IF stop_ms(state.limit_percentage) = 0 THEN <<>>
    ELSE IF ~KillOk(al, pid) THEN <<StopEv(al, pid, 153), SleepEv(PERIOD_MS, 155)>>
    ELSE <<StopEv(al, pid, 153), SleepEv(stop_ms(state.limit_percentage), 158)>>

\* Events of the stop phase for pid: nothing when stop_ms is 0, else the
\* SIGSTOP, then on failure the sleep of a period, on success of stop_ms.
StopPhaseEv(al, pid, limit) ==
    IF stop_ms(limit) = 0 THEN <<>>
    ELSE IF ~KillOk(al, pid) THEN <<StopEv(al, pid, 153), SleepEv(PERIOD_MS, 155)>>
    ELSE <<StopEv(al, pid, 153), SleepEv(stop_ms(limit), 158)>>

\* LimiterMode::Targeted, up to the end of the run phase.
EngineTargeted ==
    /\ pc = "act"
    /\ snap.is_active
    /\ snap.mode = "Targeted"
    /\ LET ev1 == ContAllEv(alive, paused_global, 127)
                    \o SwitchEv(alive, targeted_pid, snap.target_pid)
           tp == Adopted(targeted_pid, snap.target_pid)
       IN /\ paused_global' = <<>>
          /\ paused_global_set' = Drained(paused_global_set, paused_global)
          /\ IF tp = None
             THEN /\ trace' = ev1 \o <<SleepEv(PERIOD_MS, 161)>>
                  /\ targeted_pid' = tp
                  /\ pc' = "loop"
             ELSE \E build \in IF stop_ms(snap.limit_percentage) < 0
                               THEN {"checked", "wrapping"} ELSE {"wrapping"} :
                  IF build = "checked"
                  THEN \* `PERIOD_MS - run_ms` panics: the thread is gone.
                       /\ trace' = ev1
                       /\ targeted_pid' = tp
                       /\ pc' = "panicked"
                  ELSE /\ trace' = ev1 \o RunPhaseEv(alive, Unwrap(tp),
                                                     snap.limit_percentage)
                       /\ targeted_pid' = IF KillOk(alive, Unwrap(tp)) THEN tp ELSE None
                       /\ pc' = IF KillOk(alive, Unwrap(tp)) THEN "run_phase" ELSE "loop"
    /\ held' = Apply(alive, held, trace', "Targeted")
    /\ arm' = "targeted"
    /\ snap' = IF pc' = "loop" THEN NoSnap ELSE snap
    /\ dropped' = dropped \cup ((Adopted(targeted_pid, snap.target_pid) \ targeted_pid')
                                   \ alive)
    /\ UNCHANGED <<state, stop_signal, alive, lock, log, threads, status, ui>>

\* LimiterMode::Targeted, after the run phase: `if stop_ms > 0 { ... }`.
EngineStopPhase ==
    /\ pc = "run_phase"
    /\ LET pid == Unwrap(targeted_pid)
           all == StopPhaseEv(alive, pid, snap.limit_percentage)
           \* Stopped by its own SIGSTOP the thread does not get to the sleep.
           ev == IF pid = Myself /\ all # <<>> THEN <<Head(all)>> ELSE all
       IN /\ trace' = trace \o ev
          /\ held' = Apply(alive, held, ev, "Targeted")
          /\ targeted_pid' = IF ev # <<>> /\ ~KillOk(alive, pid)
                             THEN None ELSE targeted_pid
          /\ pc' = IF ev # <<>> /\ pid = Myself
                   THEN \* SIGSTOP to the own process stops this thread too.
                        "self_stopped"
                   ELSE IF ev # <<>> /\ KillOk(alive, pid)
                           /\ stop_ms(snap.limit_percentage) < 0
                   THEN "sleep_wrapped" ELSE "loop"
    /\ snap' = IF pc' = "loop" THEN NoSnap ELSE snap
    /\ dropped' = dropped \cup ((targeted_pid \ targeted_pid') \ alive)
    /\ UNCHANGED <<state, stop_signal, paused_global, paused_global_set, alive, arm,
                   lock, log, threads, status, ui>>

\* The processes whose cpu_usage() has a say: a paused one is dropped by
\* the filter_map before its usage is read.
Measured(procs, pset) == procs \ pset

\* The filter_map of the candidates: not myself, not paused, above the floor.
Candidates(procs, pset, usage) ==
    {p \in procs : p # Myself /\ p \notin pset /\ usage[p] > NoiseFloor}

\* candidates.first() without the sort
FirstUnsorted(cands, usage) == cands

\* What candidates.first() can be after the descending sort by usage.
FirstCandidates(cands, usage) ==
    {p \in cands : \A q \in cands : usage[q] <= usage[p]}

\* total_load > limit_f32
OverLimit(load, limit) == load > 10 * limit

\* `<=` for `<`: a load on the lower threshold resumes as well
UnderLowerLe(load, limit) == load <= lower_threshold(limit)

\* total_load < lower_threshold
UnderLower(load, limit) == load < lower_threshold(limit)

\* The queue after the resume branch's pop_front.
PopFront(q) == Tail(q)

\* The pid the resume branch takes from the queue.
Front(q) == Head(q)

\* `while let` for `if let`: the resume branch signals the whole queue
ResumeAllEv(al, q) == [i \in 1..Len(q) |-> Ev("cont", q[i], KillOk(al, q[i]), 0, 209)]

\* Events of `if let Some(pid) = paused_global.pop_front() { kill(SIGCONT) }`
ResumeEv(al, q) == <<ContEv(al, Front(q), 209)>>

\* push_front for push_back
PushFront(q, pid) == <<pid>> \o q

\* The queue after a successful stop of pid.
PushBack(q, pid) == Append(q, pid)

\* LimiterMode::Global: one whole iteration in which global_cpu_usage()
\* returns load.  With rec the cpu_usage() readings are kept in trace as well.
EngineGlobalBody(rec, load) ==
    /\ pc = "act"
    /\ snap.is_active
    /\ snap.mode = "Global"
    /\ LET ev0 == TakeEv(alive, targeted_pid, 166) \o <<SampleEv(load)>>
       IN IF OverLimit(load, snap.limit_percentage)
          THEN \E usage \in [Measured(alive \cup {Myself}, paused_global_set)
                                 -> UsageVals] :
               LET cands == Candidates(alive \cup {Myself}, paused_global_set, usage)
                   ev1 == ev0 \o (IF rec THEN <<UsageEv(usage)>> ELSE <<>>)
               IN IF cands = {}
                  THEN /\ trace' = ev1 \o <<SleepEv(PERIOD_MS, 214)>>
                       /\ UNCHANGED <<paused_global, paused_global_set>>
                  ELSE \E pid \in FirstCandidates(cands, usage) :
                       /\ trace' = ev1 \o <<StopEv(alive, pid, 200),
                                            SleepEv(PERIOD_MS, 214)>>
                       /\ IF KillOk(alive, pid)
                          THEN /\ paused_global_set' = paused_global_set \cup {pid}
                               /\ paused_global' = PushBack(paused_global, pid)
                          ELSE /\ paused_global_set' = paused_global_set \ {pid}
                               /\ UNCHANGED paused_global
          ELSE IF UnderLower(load, snap.limit_percentage) /\ paused_global # <<>>
          THEN /\ trace' = ev0 \o ResumeEv(alive, paused_global)
                                \o <<SleepEv(PERIOD_MS, 214)>>
               /\ paused_global' = PopFront(paused_global)
               /\ paused_global_set' = paused_global_set \ {Front(paused_global)}
          ELSE /\ trace' = ev0 \o <<SleepEv(PERIOD_MS, 214)>>
               /\ UNCHANGED <<paused_global, paused_global_set>>
    /\ held' = Apply(alive, held, trace', "Global")
    /\ targeted_pid' = None
    /\ pc' = "loop"
    /\ arm' = "global"
    /\ snap' = NoSnap
    /\ UNCHANGED <<state, stop_signal, alive, dropped, lock, threads, status, ui>>

\* The iteration for any load the machine may show.
EngineGlobalStep(rec) ==
    /\ \E load \in LoadSamples(snap.limit_percentage) : EngineGlobalBody(rec, load)
    /\ UNCHANGED log

EngineGlobal == EngineGlobalStep(FALSE)

EngineGlobalRec == EngineGlobalStep(TRUE)

\* ------------------------------------------------------------ the system

Init ==
    /\ state = NewState
    /\ stop_signal = FALSE
    /\ pc = "loop"
    /\ snap = NoSnap
    /\ targeted_pid = None
    /\ paused_global = <<>>
    /\ paused_global_set = {}
    /\ alive = Pids
    /\ held = <<>>
    /\ trace = <<>>
    /\ arm = "none"
    /\ dropped = {}
    /\ lock = "free"
    /\ log = <<>>
    /\ threads = 1
    /\ status = NewStatus
    /\ ui = NewApp

Caller ==
    \/ \E pid \in TargetInputs : set_target(pid)
    \/ \E limit \in SetGlobalInputs : set_global(limit)
    \/ \E limit \in SetLimitInputs : set_limit(limit)
    \/ \E active \in BOOLEAN : toggle(active)

Engine ==
    \/ EngineRead
    \/ EngineDisabled
    \/ EngineTargeted
    \/ EngineStopPhase
    \/ EngineGlobal

Next ==
    \/ Caller
    \/ Engine
    \/ \E p \in Pids : ProcExit(p)

Spec == Init /\ [][Next]_vars

\* ------------------------------------------------- further specifications

\* Limiter::get_status: a copy of the status
get_status == status

\* The thread has acted and its status is not yet what it tracks.  A thread
\* that has panicked publishes nothing more.
Unpublished ==
    /\ pc \notin {"act", "panicked"}
    /\ status # StatusOf(targeted_pid, paused_global, trace)

\* The thread takes the lock and writes the status of what it has just done.
publish_status ==
    /\ Unpublished
    /\ lock = "free"
    /\ status' = StatusOf(targeted_pid, paused_global, trace)
    /\ UNCHANGED <<state, stop_signal, engineVars, alive, held, dropped, lock, log,
                   threads, ui>>

\* The thread publishes its status after each of its actions, before the next.
EnginePublishing ==
    \/ ~Unpublished /\ Engine
    \/ publish_status

\* The limiter with the status its thread publishes.
NextStatus ==
    \/ Caller
    \/ EnginePublishing
    \/ \E p \in Pids : ProcExit(p)

SpecStatus == Init /\ [][NextStatus]_vars

\* The limiter whose caller may pick any process of the list as target, the
\* application's own included.  A stopped application makes no more calls.
NextSelf ==
    \/ pc # "self_stopped" /\ (\E pid \in TargetInputs \cup {Myself} : set_target(pid))
    \/ pc # "self_stopped" /\ (\E limit \in SetLimitInputs : set_limit(limit))
    \/ pc # "self_stopped" /\ (\E limit \in SetGlobalInputs : set_global(limit))
    \/ pc # "self_stopped" /\ (\E active \in BOOLEAN : toggle(active))
    \/ Engine
    \/ \E p \in Pids : ProcExit(p)

SpecSelf == Init /\ [][NextSelf]_vars

\* Most threads the callers are let spawn.
MaxThreads == 2

\* Limiter::start_background_task: thread::spawn, whatever ran before
start_background_task ==
    /\ threads < MaxThreads
    /\ threads' = threads + 1
    /\ UNCHANGED <<state, stop_signal, engineVars, alive, held, dropped, lock, log, status, ui>>

\* The limiter whose callers may call start_background_task again.
NextSpawn ==
    \/ Next
    \/ start_background_task

SpecSpawn == Init /\ [][NextSpawn]_vars

\* Largest argument of set_limit and set_global that is tried.
MaxLimitInput == 130

\* The control surface alone, the limits over 0..MaxLimitInput.
NextLimit ==
    \/ \E limit \in 0..MaxLimitInput : set_limit(limit)
    \/ \E limit \in 0..MaxLimitInput : set_global(limit)
    \/ \E pid \in TargetInputs : set_target(pid)
    \/ \E active \in BOOLEAN : toggle(active)

SpecLimit == Init /\ [][NextLimit]_vars

\* The limiter after set_global: no set_target is made, so the mode stays
\* Global, and the cpu_usage() readings are kept in trace.
InitGlobal ==
    /\ state = set_global_state(NewState, 25)
    /\ stop_signal = FALSE
    /\ pc = "loop"
    /\ snap = NoSnap
    /\ targeted_pid = None
    /\ paused_global = <<>>
    /\ paused_global_set = {}
    /\ alive = Pids
    /\ held = <<>>
    /\ trace = <<>>
    /\ arm = "none"
    /\ dropped = {}
    /\ lock = "free"
    /\ log = <<>>
    /\ threads = 1
    /\ status = NewStatus
    /\ ui = NewApp

NextGlobal ==
    \/ \E limit \in SetGlobalInputs \cup {0} : set_global(limit)
    \/ \E limit \in SetLimitInputs : set_limit(limit)
    \/ \E active \in BOOLEAN : toggle(active)
    \/ EngineRead
    \/ EngineDisabled
    \/ EngineGlobalRec
    \/ \E p \in Pids : ProcExit(p)

SpecGlobal == InitGlobal /\ [][NextGlobal]_vars

\* Values the slider is dragged to, out of its range 1..=99.
SliderInputs == {25, 99}

\* What the user does in one frame: nothing, a drag of the slider, a click
\* on the checkbox, on the button or on a row of the process list.
UiEvents ==
    {[k |-> "none", v |-> 0], [k |-> "checkbox", v |-> 0], [k |-> "button", v |-> 0]}
       \cup {[k |-> "slider", v |-> x] : x \in SliderInputs}
       \cup {[k |-> "row", v |-> p] : p \in TargetInputs}

\* CpuLimiterApp::update, one frame with the event e: the calls it makes on
\* the limiter in their order, each under the lock for its own duration.
update(e) ==
    /\ lock = "free"
    /\ LET limit_value == IF e.k = "slider" THEN e.v ELSE ui.limit_value
           s1 == IF e.k = "slider" /\ e.v # ui.limit_value
                 THEN set_limit_state(state, limit_value) ELSE state
           global_mode == IF e.k = "checkbox" THEN ~ui.global_mode ELSE ui.global_mode
           s2 == IF global_mode THEN set_global_state(s1, limit_value)
                 ELSE IF ui.selected_pid # None
                 THEN set_target_state(s1, Unwrap(ui.selected_pid))
                 ELSE s1
           is_active == IF e.k = "button" THEN ~ui.is_active ELSE ui.is_active
           s3 == IF e.k = "button" THEN toggle_state(s2, is_active) ELSE s2
           sig == IF e.k = "button" THEN toggle_signals(s2, is_active) ELSE None
           selected_pid == IF e.k = "row" THEN Some(e.v) ELSE ui.selected_pid
           s4 == IF e.k = "row" /\ ~global_mode THEN set_target_state(s3, e.v) ELSE s3
       IN /\ ui' = [selected_pid |-> selected_pid, limit_value |-> limit_value,
                    is_active |-> is_active, global_mode |-> global_mode]
          /\ state' = s4
          /\ held' = Apply(alive, held, TakeEv(alive, sig, 70), "none")
          /\ dropped' = IF s4.target_pid = state.target_pid THEN dropped ELSE {}
    /\ UNCHANGED <<stop_signal, engineVars, alive, lock, log, threads, status>>

\* The application: the limiter driven by the frames of its window.
NextApp ==
    \/ \E e \in UiEvents : update(e)
    \/ Engine
    \/ \E p \in Pids : ProcExit(p)

SpecApp == Init /\ [][NextApp]_vars

\* Limits on either side of the hysteresis margin.
LowLimitInputs == {GLOBAL_HYSTERESIS, GLOBAL_HYSTERESIS + 1}

\* The limiter with low Global limits, with every way to leave Global mode.
NextLow ==
    \/ \E pid \in TargetInputs : set_target(pid)
    \/ \E limit \in LowLimitInputs : set_global(limit)
    \/ \E active \in BOOLEAN : toggle(active)
    \/ stop
    \/ Engine
    \/ \E p \in Pids : ProcExit(p)

SpecLow == Init /\ [][NextLow]_vars

\* The thread is scheduled in Global mode as well.
SpecGlobalFair ==
    SpecGlobal /\ WF_vars(EngineRead \/ EngineDisabled \/ EngineGlobalRec)

\* The limiter with the request to stop; the limits are those of set_global.
NextStop ==
    \/ \E pid \in TargetInputs : set_target(pid)
    \/ \E limit \in SetGlobalInputs : set_global(limit)
    \/ \E active \in BOOLEAN : toggle(active)
    \/ stop
    \/ Engine
    \/ \E p \in Pids : ProcExit(p)

SpecStop == Init /\ [][NextStop]_vars

\* The thread is scheduled: a step of its loop that can be taken is taken.
SpecStopFair == SpecStop /\ WF_vars(Engine)

\* The limiter with toggle in its steps, the lock visible.
NextLock ==
    \/ \E pid \in TargetInputs : set_target(pid)
    \/ \E limit \in SetGlobalInputs : set_global(limit)
    \/ \E limit \in SetLimitInputs : set_limit(limit)
    \/ \E active \in BOOLEAN : toggle_lock(active)
    \/ toggle_kill
    \/ toggle_unlock
    \/ Engine
    \/ \E p \in Pids : ProcExit(p)

SpecLock == Init /\ [][NextLock]_vars

\* The limiter before its first toggle(true): every call but that one.  Of
\* the thread's steps only the read and the disabled arm are listed; that the
\* other arms are not enabled in any state reached is part of C22_FreshAndIdle.
NextIdle ==
    \/ \E pid \in TargetInputs : set_target(pid)
    \/ \E limit \in SetGlobalInputs : set_global(limit)
    \/ \E limit \in SetLimitInputs : set_limit(limit)
    \/ toggle(FALSE)
    \/ EngineRead
    \/ EngineDisabled
    \/ \E p \in Pids : ProcExit(p)

SpecIdle == Init /\ [][NextIdle]_vars

\* The loads of four iterations in a row, in tenths: 90, 90, 70, 70.
LoadSchedule == <<900, 900, 700, 700>>

\* The limiter after set_global(80) and toggle(true).
InitSchedule ==
    /\ state = toggle_state(set_global_state(NewState, 80), TRUE)
    /\ stop_signal = FALSE
    /\ pc = "loop"
    /\ snap = NoSnap
    /\ targeted_pid = None
    /\ paused_global = <<>>
    /\ paused_global_set = {}
    /\ alive = Pids
    /\ held = <<>>
    /\ trace = <<>>
    /\ arm = "none"
    /\ dropped = {}
    /\ lock = "free"
    /\ log = <<>>
    /\ threads = 1
    /\ status = NewStatus
    /\ ui = NewApp

\* A trace as log keeps it: of the cpu_usage() readings only the pids that
\* read above 0.5.
Digest(tr) ==
    [i \in 1..Len(tr) |->
        IF tr[i].k = "usage"
        THEN [tr[i] EXCEPT !.ms = {p \in DOMAIN tr[i].ms : tr[i].ms[p] > 5}]
        ELSE tr[i]]

\* The Global iteration whose load is the next of LoadSchedule; its trace
\* is kept in log.
EngineGlobalSched ==
    /\ Len(log) < Len(LoadSchedule)
    /\ EngineGlobalBody(TRUE, LoadSchedule[Len(log) + 1])
    /\ log' = Append(log, Digest(trace'))

NextSchedule ==
    \/ EngineRead
    \/ EngineGlobalSched
    \/ \E p \in Pids : ProcExit(p)

SpecSchedule == InitSchedule /\ [][NextSchedule]_vars

\* ------------------------------------------------------------ properties

IsSignal(e) == e.k \in {"cont", "stop"}

\* The thread takes the step of its arm out of "act".
ArmStep == pc = "act" /\ pc' # "act"

DisabledStep == ArmStep /\ ~snap.is_active

TargetedStep == ArmStep /\ snap.is_active /\ snap.mode = "Targeted"

GlobalStep == ArmStep /\ snap.is_active /\ snap.mode = "Global"

C2_TargetedDutyCycle ==
    [][/\ (/\ TargetedStep
           /\ snap.target_pid # None
           /\ targeted_pid = snap.target_pid
           /\ paused_global = <<>>
           /\ snap.limit_percentage \in 1..99
           /\ Unwrap(snap.target_pid) \in alive \ Protected)
          => /\ pc' = "run_phase"
             /\ trace' = <<Ev("cont", Unwrap(snap.target_pid), TRUE, 0, 143),
                           Ev("sleep", -1, TRUE, snap.limit_percentage, 149)>>
       /\ (/\ pc = "run_phase"
           /\ pc' # "run_phase"
           /\ snap.limit_percentage \in 1..99
           /\ Unwrap(targeted_pid) \in alive)
          => /\ pc' = "loop"
             /\ Len(trace) >= 2
             /\ trace[Len(trace) - 1] = Ev("cont", Unwrap(targeted_pid), TRUE, 0, 143)
             /\ trace[Len(trace)] = Ev("sleep", -1, TRUE, snap.limit_percentage, 149)
             /\ trace' = trace \o
                  <<Ev("stop", Unwrap(targeted_pid), TRUE, 0, 153),
                    Ev("sleep", -1, TRUE, 100 - snap.limit_percentage, 158)>>]_vars

\* C2 witness: limit 25, target 1: continue, 25 ms, stop, 75 ms.
C2_Witness ==
    /\ pc = "loop"
    /\ arm = "targeted"
    /\ trace = <<Ev("cont", 1, TRUE, 0, 143), Ev("sleep", -1, TRUE, 25, 149),
                 Ev("stop", 1, TRUE, 0, 153), Ev("sleep", -1, TRUE, 75, 158)>>
    /\ held = <<<<1, "Targeted">>>>

\* C3: once a signal to an exited target has failed, the thread clears
\* targeted_pid and sends no signal to that pid again while the configured
\* target stays the same.
C3_NoRetryAfterExit ==
    [][/\ (pc \in {"act", "run_phase"} /\ pc' # pc)
          => \A i \in (IF pc = "act" THEN 1 ELSE Len(trace) + 1)..Len(trace') :
                /\ IsSignal(trace'[i]) => trace'[i].pid \notin dropped
                /\ (trace'[i].at \in {143, 153} /\ ~trace'[i].ok)
                      => targeted_pid' = None]_vars

\* C4: the stored limit_percentage is always within 1..100.
C4_LimitInRange == state.limit_percentage \in 1..100

\* C5: set_limit(x) stores x when 1 <= x <= 100, 1 when x < 1 and 100 when
\* x > 100.
C5_SetLimitClamps ==
    [][\A x \in 0..MaxLimitInput :
          set_limit(x) =>
             state'.limit_percentage =
                (IF x < 1 THEN 1 ELSE IF x > 100 THEN 100 ELSE x)]_vars

\* C5 witness: in Targeted mode, which set_global never leaves behind while
\* no target is set, set_limit has stored the lowest value it can store.
C5_Witness ==
    /\ state.limit_percentage = 1
    /\ state.mode = "Targeted"
    /\ state.target_pid = None

\* C6: a Targeted iteration leaves the paused queue and set empty, and its
\* first events are the SIGCONTs to the pids of the queue, in queue order,
\* ahead of every signal of Targeted mode.
C6_TargetedDrainsGlobal ==
    [][TargetedStep =>
        /\ paused_global' = <<>>
        /\ paused_global_set' = {}
        /\ Len(trace') >= Len(paused_global)
        /\ \A i \in 1..Len(paused_global) :
              trace'[i].k = "cont" /\ trace'[i].pid = paused_global[i]
        /\ \A i \in 1..Len(trace') :
              trace'[i].at \in {134, 143, 153} => i > Len(paused_global)]_vars

\* C6 witness: two globally paused pids were resumed, then the target signalled.
C6_Witness ==
    /\ arm = "targeted"
    /\ Len(trace) >= 3
    /\ trace[1].at = 127 /\ trace[1].ok
    /\ trace[2].at = 127 /\ trace[2].ok
    /\ trace[3].at = 143
    /\ paused_global = <<>>
    /\ paused_global_set = {}

\* C7: a Global iteration sends SIGCONT to the held targeted pid and sets
\* targeted_pid = None before it samples the load and before any SIGSTOP.
C7_GlobalReleasesTargeted ==
    [][GlobalStep =>
        /\ targeted_pid' = None
        /\ \E i \in 1..Len(trace') : trace'[i].k = "sample"
        /\ targeted_pid # None =>
              /\ trace'[1].k = "cont"
              /\ trace'[1].pid = Unwrap(targeted_pid)
        /\ \A i \in 1..Len(trace') :
              trace'[i].k \in {"sample", "stop"} =>
                 i > (IF targeted_pid = None THEN 0 ELSE 1)]_vars

\* C7 witness: the held target was resumed, the load sampled, a process stopped.
C7_Witness ==
    /\ arm = "global"
    /\ Len(trace) >= 3
    /\ trace[1].at = 166 /\ trace[1].ok
    /\ trace[2].k = "sample"
    /\ trace[3].k = "stop" /\ trace[3].ok
    /\ targeted_pid = None

TargetedHeld(h) == {i \in 1..Len(h) : h[i][2] = "Targeted"}

\* C8: at most one process is stopped through Targeted-mode signalling, and
\* on a change of target the old held target gets its SIGCONT before the
\* new target gets any signal.
C8_OneTargetedHeld ==
    [][/\ Cardinality(TargetedHeld(held')) <= 1
       /\ (TargetedStep /\ targeted_pid # None /\ targeted_pid # snap.target_pid)
          => /\ Len(trace') >= 1
             /\ trace'[1].k = "cont"
             /\ trace'[1].pid = Unwrap(targeted_pid)
             /\ \A i \in 1..Len(trace') :
                   (IsSignal(trace'[i]) /\ trace'[i].pid \in snap.target_pid)
                      => i > 1]_vars

\* C8 witness: the old target 1 was resumed, then the new target 2 was
\* continued and stopped, and 2 is the only stopped process.
C8_Witness ==
    /\ arm = "targeted"
    /\ pc = "loop"
    /\ Len(trace) = 5
    /\ trace[1].at = 134 /\ trace[1].ok /\ trace[1].pid = 1
    /\ trace[2].at = 143 /\ trace[2].ok /\ trace[2].pid = 2
    /\ trace[4].at = 153 /\ trace[4].ok
    /\ held = <<<<2, "Targeted">>>>

\* C9: when the sampled load is above the limit, the one process that gets
\* SIGSTOP has the highest usage among those that are not this process, not
\* in the paused set and above 0.5; on success it goes to the tail of the
\* queue and into the set; without such a process no signal is sent.
C9_StopsTopCandidate ==
    [][GlobalStep =>
        LET stops == {i \in 1..Len(trace') : trace'[i].k = "stop"}
            over == \E i \in 1..Len(trace') :
                       /\ trace'[i].k = "sample"
                       /\ trace'[i].ms > 10 * snap.limit_percentage
            u == trace'[CHOOSE i \in 1..Len(trace') : trace'[i].k = "usage"].ms
            elig == {p \in alive \cup {Myself} :
                       p # Myself /\ p \notin paused_global_set /\ u[p] > 5}
        IN IF ~over THEN stops = {}
           ELSE /\ Cardinality(stops) <= 1
                /\ elig = {} => stops = {}
                /\ stops = {} => UNCHANGED <<paused_global, paused_global_set>>
                /\ elig # {} => stops # {}
                /\ \A i \in stops :
                      /\ trace'[i].pid \in elig
                      /\ \A q \in elig : u[q] <= u[trace'[i].pid]
                      /\ IF trace'[i].ok
                         THEN /\ paused_global' = Append(paused_global, trace'[i].pid)
                              /\ paused_global_set' =
                                    paused_global_set \cup {trace'[i].pid}
                         ELSE UNCHANGED <<paused_global, paused_global_set>>]_vars

\* C9 witness: of two candidates with usages 0.6 and 2.0 the second was
\* stopped and put behind the pid already in the queue.
C9_Witness ==
    /\ arm = "global"
    /\ pc = "loop"
    /\ \E i \in 1..Len(trace) :
          /\ trace[i].k = "usage"
          /\ trace[i + 1].k = "stop"
          /\ trace[i + 1].ok
          /\ trace[i].ms[trace[i + 1].pid] = 20
          /\ \E q \in DOMAIN trace[i].ms : q # Myself /\ trace[i].ms[q] = 6
          /\ trace[i].ms[Myself] = 20
          /\ Len(paused_global) = 2
          /\ paused_global[2] = trace[i + 1].pid

\* The pids stopped on behalf of Global mode, oldest stop first.
GlobalHeld(h) ==
    LET IsG(e) == e[2] = "Global"
        g == SelectSeq(h, IsG)
    IN [i \in 1..Len(g) |-> g[i][1]]

\* The pids of q that are stopped.
StillHeld(q, h) == LET In(p) == p \in HeldPids(h) IN SelectSeq(q, In)

\* C10: when the sampled load is below limit - 5 and the queue is not
\* empty, the head of the queue gets the SIGCONT and leaves queue and set;
\* the queue keeps the pids in the order of their stops, so the pid resumed
\* is the one stopped first.
C10_FifoResume ==
    [][/\ StillHeld(paused_global', held') = GlobalHeld(held')
       /\ GlobalStep =>
             LET resumes == {i \in 1..Len(trace') : trace'[i].at = 209}
                 under == \E i \in 1..Len(trace') :
                             /\ trace'[i].k = "sample"
                             /\ trace'[i].ms < 10 * (snap.limit_percentage - 5)
             IN /\ (under /\ paused_global # <<>>) => Cardinality(resumes) = 1
                /\ ~under => resumes = {}
                /\ \A i \in resumes :
                      /\ trace'[i].k = "cont"
                      /\ trace'[i].pid = Head(paused_global)
                      /\ paused_global' = Tail(paused_global)
                      /\ paused_global_set' = paused_global_set \ {Head(paused_global)}
                      /\ \A j \in 1..Len(GlobalHeld(held)) :
                            GlobalHeld(held)[j] = trace'[i].pid => j = 1]_vars

\* C10 witness: of two stopped pids the older one was resumed, the other waits.
C10_Witness ==
    /\ arm = "global"
    /\ pc = "loop"
    /\ \E i \in 1..Len(trace) : trace[i].at = 209 /\ trace[i].ok
    /\ Len(paused_global) = 1
    /\ GlobalHeld(held) = paused_global

\* The loads sampled in trace that lie in limit - 5 <= L <= limit.
InBand(tr, limit) ==
    \E i \in 1..Len(tr) :
       /\ tr[i].k = "sample"
       /\ tr[i].ms >= 10 * (limit - 5)
       /\ tr[i].ms <= 10 * limit

\* C11 as claimed: a Global iteration whose load L has limit - 5 <= L <=
\* limit sends no stop and no continue signal at all and leaves the paused
\* queue and set unchanged.
C11_DeadBandNoSignal ==
    [][(GlobalStep /\ InBand(trace', snap.limit_percentage))
          => /\ \A i \in 1..Len(trace') : ~IsSignal(trace'[i])
             /\ UNCHANGED <<paused_global, paused_global_set>>]_vars

\* C11 amended: such an iteration sends no stop signal and no continue
\* signal to a globally paused pid, and leaves the paused queue and set and
\* the processes stopped for Global mode unchanged; the one signal it may
\* send is the continue to a held Targeted-mode pid (line 166).
C11_DeadBand ==
    [][(GlobalStep /\ InBand(trace', snap.limit_percentage))
          => /\ \A i \in 1..Len(trace') :
                   IsSignal(trace'[i])
                      => /\ trace'[i].at = 166
                         /\ trace'[i].k = "cont"
                         /\ trace'[i].pid \in targeted_pid
                         /\ trace'[i].pid \notin Range(paused_global)
             /\ UNCHANGED <<paused_global, paused_global_set>>
             /\ GlobalHeld(held') = GlobalHeld(held)]_vars

\* C11 witness: with a pid in the paused queue the load 20.0 was sampled
\* under the limit 25, on the lower threshold; nothing was signalled.
C11_Witness ==
    /\ arm = "global"
    /\ pc = "loop"
    /\ trace = <<SampleEv(200), SleepEv(PERIOD_MS, 214)>>
    /\ paused_global # <<>>
    /\ GlobalHeld(held) = paused_global

\* The stop signals of one iteration's trace.
StopsOf(tr) == {i \in 1..Len(tr) : tr[i].k = "stop"}

\* The continue signals of one iteration's trace.
ContsOf(tr) == {i \in 1..Len(tr) : tr[i].k = "cont"}

\* C12 as claimed: with limit 80 and the loads 90, 90, 70, 70 the first
\* iteration sends one stop signal, the first two send no continue signal
\* and the third sends one continue signal.
C12_ScenarioAsClaimed ==
    /\ Len(log) >= 1 => Cardinality(StopsOf(log[1])) = 1
    /\ Len(log) >= 2 => ContsOf(log[1]) = {} /\ ContsOf(log[2]) = {}
    /\ Len(log) >= 3 => Cardinality(ContsOf(log[3])) = 1

\* The pids a trace of log shows as eligible: usage above 0.5 and not this
\* process (no pid is paused at the first sample).
EligibleIn(tr) ==
    tr[CHOOSE i \in 1..Len(tr) : tr[i].k = "usage"].ms \ {Myself}

\* The pids the iterations log[1..n] stopped with success, in that order.
RECURSIVE StoppedBy(_, _)
StoppedBy(lg, n) ==
    IF n = 0 THEN <<>>
    ELSE LET tr == lg[n]
             IsOk(e) == e.k = "stop" /\ e.ok
             s == SelectSeq(tr, IsOk)
         IN StoppedBy(lg, n - 1) \o [i \in 1..Len(s) |-> s[i].pid]

\* C12 amended: with limit 80 and the loads 90, 90, 70, 70 the first
\* iteration sends one stop signal when an eligible process exists and none
\* otherwise; the first two iterations send no continue signal; the third
\* sends no stop signal, and one continue signal, to the pid stopped first,
\* when a stop of the first two iterations succeeded, and none otherwise.
C12_Scenario ==
    /\ Len(log) >= 1 =>
          /\ EligibleIn(log[1]) # {} => Cardinality(StopsOf(log[1])) = 1
          /\ EligibleIn(log[1]) = {} => StopsOf(log[1]) = {}
          /\ \A i \in StopsOf(log[1]) : log[1][i].pid \in EligibleIn(log[1])
    /\ Len(log) >= 2 => ContsOf(log[1]) = {} /\ ContsOf(log[2]) = {}
    /\ Len(log) >= 3 =>
          /\ StopsOf(log[3]) = {}
          /\ StoppedBy(log, 2) # <<>> =>
                /\ Cardinality(ContsOf(log[3])) = 1
                /\ \A i \in ContsOf(log[3]) :
                      /\ log[3][i].at = 209
                      /\ log[3][i].pid = StoppedBy(log, 2)[1]
          /\ StoppedBy(log, 2) = <<>> => ContsOf(log[3]) = {}

\* C12 witness: the four iterations are done; the first and the second
\* stopped a process each, the third resumed the first of them with success.
C12_Witness ==
    /\ Len(log) = 4
    /\ Len(StoppedBy(log, 2)) = 2
    /\ \E i \in ContsOf(log[3]) :
          log[3][i].pid = StoppedBy(log, 2)[1] /\ log[3][i].ok

\* The thread leaves the loop on the stop request.
ShutdownStep == pc = "loop" /\ stop_signal /\ pc' # pc

C14_StopTerminates == stop_signal ~> (pc \in {"exited", "panicked"})

\* A step in which the background thread sends signals or sleeps.
EngineActs == (pc \in {"act", "run_phase"} /\ pc' # pc) \/ ShutdownStep

\* The step in which the caller of toggle makes its kill call.
CallerKills == lock = "toggle_kill" /\ lock' # lock

\* C15: no thread holds the state mutex while it delivers a signal or
\* sleeps.
C15_NoLockAcrossSignal ==
    [][/\ EngineActs => LockHolder(lock) # "engine"
       /\ CallerKills => LockHolder(lock) # "caller"]_vars

\* The thread reads the state (lines 106-109).
ReadStep == pc = "loop" /\ pc' = "act"

\* The events a step has added to trace.
Added == SubSeq(trace', (IF pc = "run_phase" THEN Len(trace) + 1 ELSE 1), Len(trace'))

\* C16: the thread reads the state once per iteration, as one tuple equal
\* to the state the setters have left; the signals and sleeps of the
\* iteration follow that tuple whatever the setters write meanwhile, and
\* the bindings change at the read and at the end of the iteration only.
C16_ReadOncePerIteration ==
    [][/\ ReadStep =>
             /\ state' = state
             /\ snap'.is_active = state.is_active
             /\ state.is_active =>
                   /\ snap'.mode = state.mode
                   /\ state.mode = "Global" =>
                         snap'.limit_percentage = state.limit_percentage
                   /\ state.mode = "Targeted" =>
                         /\ snap'.target_pid = state.target_pid
                         /\ state.target_pid # None =>
                               snap'.limit_percentage = state.limit_percentage
       /\ snap' # snap => (ReadStep \/ pc' = "loop")
       /\ EngineActs =>
             \A i \in 1..Len(Added) :
                LET e == Added[i]
                    p == snap.limit_percentage
                IN /\ e.at \in {113, 116, 119} => ~snap.is_active
                   /\ e.at \in {127, 134, 143, 145, 149, 153, 155, 158, 161} =>
                         snap.is_active /\ snap.mode = "Targeted"
                   /\ e.at \in {166, 170, 200, 209, 214} =>
                         snap.is_active /\ snap.mode = "Global"
                   /\ e.at \in {143, 153} => e.pid \in snap.target_pid
                   /\ e.at = 149 => e.ms = (PERIOD_MS * p) \div 100
                   /\ e.at = 158 => e.ms = PERIOD_MS - (PERIOD_MS * p) \div 100
                   /\ e.at = 161 => snap.target_pid = None
                   /\ e.at = 200 =>
                         \E j \in 1..Len(Added) :
                            Added[j].k = "sample" /\ Added[j].ms > 10 * p
                   /\ e.at = 209 =>
                         \E j \in 1..Len(Added) :
                            Added[j].k = "sample" /\ Added[j].ms < 10 * (p - 5)
       /\ (pc = "run_phase" /\ pc' # pc
             /\ PERIOD_MS - (PERIOD_MS * snap.limit_percentage) \div 100 = 0)
          => Added = <<>>]_vars

\* C16 witness: in the middle of an iteration that read target 1 and limit
\* 25, the setters have left target 2, Global mode and limit 150, and the
\* limiter is disabled; the stop phase is still to come.
C16_Witness ==
    /\ pc = "run_phase"
    /\ snap.target_pid = {1}
    /\ snap.limit_percentage = 25
    /\ trace = <<Ev("cont", 1, TRUE, 0, 143), Ev("sleep", -1, TRUE, 25, 149)>>
    /\ state.target_pid = {2}
    /\ state.mode = "Global"
    /\ state.limit_percentage = 150
    /\ ~state.is_active

\* C17: when toggle(false) returns, every process the thread holds stopped,
\* its targeted pid and the pids of its paused queue, has been resumed by
\* the caller.
C17_ToggleReleasesHeld ==
    [][toggle(FALSE) =>
          HeldPids(held') \cap (targeted_pid \cup Range(paused_global)) = {}]_vars

\* held without the entries of the pids of t.
Without(h, t) == LET Keep(e) == e[1] \notin t IN SelectSeq(h, Keep)

\* C18: the callers' only signal is the SIGCONT of toggle(false) to the
\* configured target: set_target, set_global, set_limit, toggle(true) and
\* get_state change no process, toggle(false) resumes the configured target
\* and nothing else, and without a target nothing.
C18_CallerSignals ==
    [][/\ ((\E pid \in TargetInputs : set_target(pid))
              \/ (\E limit \in SetGlobalInputs : set_global(limit))
              \/ (\E limit \in SetLimitInputs : set_limit(limit))
              \/ toggle(TRUE))
          => held' = held /\ alive' = alive
       /\ toggle(FALSE) =>
             /\ alive' = alive
             /\ held' = Without(held, state.target_pid)
             /\ state.target_pid = None => held' = held
       /\ get_state' # get_state =>
             /\ trace' = trace
             /\ targeted_pid' = targeted_pid
             /\ paused_global' = paused_global]_vars

\* C18 witness: toggle(false) has resumed the target that the thread had
\* stopped in its last iteration and still holds.
C18_Witness ==
    /\ ~state.is_active
    /\ state.target_pid = {1}
    /\ targeted_pid = {1}
    /\ pc = "loop"
    /\ Len(trace) = 4
    /\ trace[3] = Ev("stop", 1, TRUE, 0, 153)
    /\ 1 \in alive
    /\ held = <<>>

\* C19: after set_target(pid), from any state, get_state returns target_pid
\* = Some(pid) and mode = Targeted, and limit_percentage as it was.
C19_SetTarget ==
    [][\A pid \in TargetInputs :
          set_target(pid) =>
             /\ get_state'.target_pid = {pid}
             /\ get_state'.mode = "Targeted"
             /\ get_state'.limit_percentage = get_state.limit_percentage]_vars

\* C19 witness: set_target(2) was called in Global mode with the limit 130,
\* which only set_global stores.
C19_Witness ==
    /\ state.target_pid = {2}
    /\ state.mode = "Targeted"
    /\ state.limit_percentage = 130

\* C20: set_target, set_global and set_limit leave is_active as it was,
\* is_active changes through toggle only, and toggle leaves target_pid, mode
\* and limit_percentage as they were.
C20_EnabledFrame ==
    [][/\ ((\E pid \in TargetInputs : set_target(pid))
              \/ (\E limit \in 0..MaxLimitInput : set_global(limit))
              \/ (\E limit \in 0..MaxLimitInput : set_limit(limit)))
          => state'.is_active = state.is_active
       /\ state'.is_active # state.is_active => toggle(state'.is_active)
       /\ \A active \in BOOLEAN :
             toggle(active) =>
                /\ state'.is_active = active
                /\ state'.target_pid = state.target_pid
                /\ state'.mode = state.mode
                /\ state'.limit_percentage = state.limit_percentage]_vars

\* C20 witness: the limiter was switched on, then a target chosen, the mode
\* made Global and the limit set; it is still on.
C20_Witness ==
    /\ state.is_active
    /\ state.target_pid = {1}
    /\ state.mode = "Global"
    /\ state.limit_percentage = 100

C22_FreshAndIdle ==
    /\ get_state = [target_pid |-> {}, limit_percentage |-> 100,
                    mode |-> "Targeted", is_active |-> FALSE]
    /\ [](/\ ~state.is_active
          /\ held = <<>>
          /\ \A i \in 1..Len(trace) : trace[i].k # "stop"
          /\ ~ENABLED (EngineTargeted \/ EngineStopPhase \/ EngineGlobal))

\* C22 witness: with a target set, then Global mode and the limit 25, the
\* thread has made an iteration, which took the disabled arm and slept.
C22_Witness ==
    /\ state.target_pid # None
    /\ state.mode = "Global"
    /\ state.limit_percentage = 25
    /\ pc = "loop"
    /\ arm = "disabled"
    /\ trace = <<SleepEv(PERIOD_MS, 119)>>

\* C25: for every limit the setters can store, the Targeted computation gives
\* 0 <= run_ms <= 100 and 0 <= stop_ms <= 100 with run_ms + stop_ms = 100: the
\* subtraction never underflows, so the thread neither panics nor sleeps a
\* wrapped stop_ms while it holds a target.
C25_NoUnderflow ==
    /\ pc \notin {"panicked", "sleep_wrapped"}
    /\ pc = "run_phase" =>
          /\ run_ms(snap.limit_percentage) \in 0..PERIOD_MS
          /\ stop_ms(snap.limit_percentage) \in 0..PERIOD_MS
          /\ run_ms(snap.limit_percentage) + stop_ms(snap.limit_percentage) = PERIOD_MS

\* The milliseconds the thread slept in the events tr.
RECURSIVE SleptMs(_)
SleptMs(tr) ==
    IF tr = <<>> THEN 0
    ELSE (IF Head(tr).k = "sleep" THEN Head(tr).ms ELSE 0) + SleptMs(Tail(tr))

\* The step that ends an iteration of the Targeted arm with a target.
TargetedEnds ==
    /\ pc \in {"act", "run_phase"}
    /\ pc' = "loop"
    /\ snap.is_active
    /\ snap.mode = "Targeted"
    /\ snap.target_pid # None

\* C26: in Targeted mode with the limit 100 an iteration sends no stop
\* signal: it sends the target its continue signal and sleeps a period in
\* all, and the target is not left stopped.
C26_FullLimitNeverStops ==
    [][(TargetedEnds /\ snap.limit_percentage = 100) =>
          LET t == Unwrap(snap.target_pid)
          IN /\ StopsOf(trace') = {}
             /\ Cardinality({i \in 1..Len(trace') : trace'[i].at = 143}) = 1
             /\ \A i \in 1..Len(trace') :
                   trace'[i].at = 143 => trace'[i].k = "cont" /\ trace'[i].pid = t
             /\ SleptMs(trace') = PERIOD_MS
             /\ t \notin HeldPids(held')]_vars

\* C26 witness: an iteration with the limit 100 has sent its target the
\* continue signal with success and slept the whole period as run phase.
C26_Witness ==
    /\ pc = "loop"
    /\ arm = "targeted"
    /\ state.limit_percentage = 100
    /\ state.is_active
    /\ \E p \in state.target_pid :
          trace = <<Ev("cont", p, TRUE, 0, 143), SleepEv(PERIOD_MS, 149)>>

C28_FailedStopNotRetried ==
    /\ \A i \in 1..Len(log) : \A a \in 1..Len(log[i]) :
          (log[i][a].k = "stop" /\ ~log[i][a].ok) =>
             /\ pc \in {"loop", "act"}
             /\ i = Len(log) =>
                   /\ log[i][a].pid \notin Range(paused_global)
                   /\ log[i][a].pid \notin paused_global_set
             /\ \A j \in (i + 1)..Len(log) : \A b \in 1..Len(log[j]) :
                   log[j][b].k = "stop" => log[j][b].pid # log[i][a].pid

\* C29: an iteration sleeps at most one period (100 ms) in all on every path
\* (disabled, no target, Targeted run and stop, Targeted signal failure,
\* Global), so the thread reads the state again within a period.
C29_SleepsAtMostPeriod ==
    [][(pc \in {"act", "run_phase"} /\ pc' # pc) =>
          /\ pc' \in {"loop", "run_phase"}
          /\ SleptMs(trace') <= PERIOD_MS]_vars

\* Whether event e is the signal k sent to pid p.
Sent(e, k, p) == e.k = k /\ e.pid = p

\* C30: at every iteration boundary the paused queue has no duplicate and
\* the paused set is the set of the queue's pids; a pid enters the queue only
\* with a successful stop signal of the thread, and a pid the thread sends a
\* continue signal is no longer in them unless the thread stopped it anew.
C30_QueueAndSet ==
    [][/\ pc' = "loop" =>
             /\ \A i, j \in 1..Len(paused_global') :
                   paused_global'[i] = paused_global'[j] => i = j
             /\ paused_global_set' = Range(paused_global')
       /\ \A p \in Range(paused_global') \ Range(paused_global) :
             \E i \in 1..Len(Added) : Sent(Added[i], "stop", p) /\ Added[i].ok
       /\ EngineActs =>
             \A i \in 1..Len(Added) : \A p \in Range(paused_global') :
                Sent(Added[i], "cont", p) =>
                   \E j \in (i + 1)..Len(Added) :
                      Sent(Added[j], "stop", p) /\ Added[j].ok]_vars

\* C30 witness: two processes stopped in Global mode are in the queue, oldest
\* first, and the thread is between two iterations.
C30_Witness ==
    /\ pc = "loop"
    /\ Len(paused_global) = 2
    /\ held = [i \in 1..2 |-> <<paused_global[i], "Global">>]

\* C23: whatever the callers call, start_background_task again included, at
\* most one thread runs the loop and signals processes for the Limiter.
C23_OneEngineThread == threads <= 1

C31_StopThenCont ==
    [][\A p \in targeted_pid :
          ((ArmStep \/ ShutdownStep) /\ <<p, "Targeted">> \in Range(held)) =>
             \E i \in 1..Len(trace') :
                /\ Sent(trace'[i], "cont", p)
                /\ \A j \in 1..(i - 1) : trace'[j].k # "stop"]_vars

\* C32: from the return of toggle(false) to the next toggle(true) the thread
\* sends no stop signal, so an iteration already under way does not stop
\* again the target that toggle(false) has resumed.
C32_NoStopAfterToggleOff ==
    [][(EngineActs /\ lock = "free" /\ ~state.is_active) =>
          \A i \in 1..Len(Added) : Added[i].k # "stop"]_vars

\* C33: a continue signal goes only to a process the thread has stopped and
\* not yet resumed: neither toggle(false) nor the loop sends one to a process
\* that is not stopped by the thread.
C33_ContOnlyToStopped ==
    [][/\ CallerKills => state.target_pid \subseteq HeldPids(held)
       /\ EngineActs =>
             \A i \in 1..Len(Added) :
                Added[i].k = "cont" =>
                   Added[i].pid \in
                      HeldPids(Apply(alive, held, SubSeq(Added, 1, i - 1), "none"))]_vars

\* C34: the thread never sends a stop signal to the application's own
\* process, in either mode and whatever target is configured.
C34_NeverStopsSelf ==
    \A i \in 1..Len(trace) : ~Sent(trace[i], "stop", Myself)

\* The limiter is on in Global mode, and the iteration just made sampled a
\* load above the limit and read at least one process that is eligible and
\* that SIGSTOP can stop.
Overloaded ==
    /\ state.is_active
    /\ state.mode = "Global"
    /\ (pc = "loop" /\ arm = "global") =>
          /\ \E i \in 1..Len(trace) :
                trace[i].k = "sample" /\ trace[i].ms > 10 * state.limit_percentage
          /\ \E i \in 1..Len(trace) :
                /\ trace[i].k = "usage"
                /\ \E p \in DOMAIN trace[i].ms :
                      p # Myself /\ trace[i].ms[p] > NoiseFloor /\ KillOk(alive, p)

\* C35: in Global mode, when the load stays above the limit and there is an
\* eligible process that can be stopped, the thread eventually suspends a
\* process, even if the candidate of highest usage cannot be stopped.
C35_EventuallySuspends ==
    (<>[]Overloaded) => <>(\E i \in 1..Len(held) : held[i][2] = "Global")

\* C36: in Global mode with a limit of 5 or less the resume threshold is 0,
\* so no load sample takes the resume branch: an iteration in Global mode
\* leaves the paused queue as it is or longer, and the thread resumes queued
\* pids only when disabled, on the way to Targeted mode or at shutdown.
C36_LowLimitNoResume ==
    [][/\ (ArmStep /\ snap.is_active /\ snap.mode = "Global"
              /\ snap.limit_percentage <= GLOBAL_HYSTERESIS) =>
             /\ lower_threshold(snap.limit_percentage) = 0
             /\ \A i \in 1..Len(trace') : trace'[i].at # 209
             /\ Len(paused_global') >= Len(paused_global)
             /\ SubSeq(paused_global', 1, Len(paused_global)) = paused_global
       /\ EngineActs =>
             \A i \in 1..Len(Added) :
                (/\ Added[i].k = "cont"
                 /\ Added[i].pid \in Range(paused_global)
                 /\ \A j \in 1..(i - 1) : ~Sent(Added[j], "cont", Added[i].pid)
                 /\ snap.limit_percentage <= GLOBAL_HYSTERESIS) =>
                   Added[i].at \in {100, 116, 127}]_vars

\* C36 witness: with the limit 5 and a process in the queue an iteration
\* has sampled the load 0 and has resumed nothing.
C36_Witness ==
    /\ pc = "loop"
    /\ arm = "global"
    /\ state.limit_percentage = GLOBAL_HYSTERESIS
    /\ paused_global # <<>>
    /\ HeldPids(held) = Range(paused_global)
    /\ trace = <<SampleEv(0), SleepEv(PERIOD_MS, 214)>>

\* C37: after any sequence of frames, whenever the limiter is active its
\* limit_percentage is the limit_value the window shows.
C37_LimitAsDisplayed ==
    state.is_active => state.limit_percentage = ui.limit_value

\* C38: after every frame the limiter is in Global mode exactly when the
\* global-mode checkbox is checked.
C38_ModeAsCheckbox ==
    state.mode = "Global" <=> ui.global_mode

====
